---- MODULE Spec2Model ----
(***************************************************************************)
(* A model of smartcross/envs/cityflow_env.py: the action codec           *)
(* (md2d / d2md), the staged phase transition of CityflowEnv._simulate,    *)
(* the episode driver (reset / step) and the reward of _get_reward.        *)
(*                                                                         *)
(* The CityFlow engine is modelled by what the environment does to it:     *)
(* the number of next_step calls, the phase last set at each crossing      *)
(* with set_tl_phase, and the lane waiting counts it reports, which are    *)
(* an input chosen afresh at every query.                                  *)
(***************************************************************************)
EXTENDS Integers, Sequences, FiniteSets, TLC

\* ------------------------------------------------------------------ bounds
MaxDur == 2
MaxEpisode == 2
MaxSteps == 2
MaxWait == 2
MaxQueued == 1
MaxVecLen == 5
MaxEntry == 4

\* ------------------------------------------------------- program constants
Md2dRadix == 4
D2mdRadix == 4
D2mdDigits == 4
GreenLinks == 4
YellowLinks == 4
RedLinks == 0
LaneSuffixLen == 2

VARIABLES
    \* configuration, fixed at construction (__init__, _parse_config_file)
    crossing_phases,       \* per crossing: [G, Y, R], lists of engine phase ids
    crossing_in_roads,     \* per crossing: list of road ids
    crossing_out_roads,    \* per crossing: list of road ids
    all_lanes,             \* the lane ids the engine reports
    red_duration, yellow_duration, green_duration,
    max_episode_duration,
    no_actions,
    from_discrete,
    obs_type,              \* the channels of the observation
    \* controller state (reset, _simulate, step)
    current_phases,        \* per crossing (dict in insertion order): Green index
    total_duration,
    total_reward,
    \* the engine, as the environment drives it
    eng_ticks,             \* next_step calls since the last eng.reset()
    eng_phase,             \* per crossing: phase id last set, NoPhase if none
    \* the latest call
    call,                  \* "init", "reset", "step"
    action,                \* the action handed to step
    targets,               \* the vector handed to _simulate
    raised,                \* the call ended in an exception
    log,                   \* engine calls made by the latest call, in order
    ret,                   \* what step returned: [reward, done, info]
    nsteps,                \* step calls since the last reset
    done_seen,             \* a step since the last reset returned done = True
    obs,                   \* per crossing: what _get_obs built for reset or step
    returned_sum,          \* history: the sum of the rewards returned since the last reset
    \* the codec applied to a vector
    md_action, d_action, decoded, codec_pc,
    \* _get_reward applied to the engine's waiting counts
    eng_waiting,           \* per lane of all_lanes: waiting vehicles reported
    reward                 \* per crossing: the result of _get_reward

cfgvars == <<crossing_phases, crossing_in_roads, crossing_out_roads, all_lanes,
             red_duration, yellow_duration, green_duration,
             max_episode_duration, no_actions, from_discrete, obs_type>>
envvars == <<current_phases, total_duration, total_reward, eng_ticks, eng_phase,
             call, action, targets, raised, log, ret, nsteps, done_seen, obs,
             returned_sum>>
codecvars == <<md_action, d_action, decoded, codec_pc>>
rewardvars == <<eng_waiting, reward>>
vars == <<cfgvars, envvars, codecvars, rewardvars>>

\* ------------------------------------------------------------ python lists
Min(a, b) == IF a < b THEN a ELSE b

\* lst[i] is defined for -len <= i < len
InRange(lst, i) == (0 - Len(lst)) <= i /\ i < Len(lst)

\* lst[i], 0-based, a negative index counting from the end
PyIndex(lst, i) == IF i >= 0 THEN lst[i + 1] ELSE lst[Len(lst) + i + 1]

Reverse(s) == [k \in 1..Len(s) |-> s[Len(s) + 1 - k]]

RECURSIVE SumSeq(_)
SumSeq(s) == IF s = <<>> THEN 0 ELSE Head(s) + SumSeq(Tail(s))

\* ------------------------------------------------------------------- codec
RECURSIVE Md2dFrom(_, _)
Md2dFrom(res, rest) ==
    IF rest = <<>> THEN res
    ELSE Md2dFrom(res * Md2dRadix + Head(rest), Tail(rest))

md2d(md) == Md2dFrom(0, md)

RECURSIVE D2mdLoop(_, _, _)
D2mdLoop(res, tmp, n) ==
    IF n = 0 THEN res
    ELSE D2mdLoop(Append(res, tmp % D2mdRadix), tmp \div D2mdRadix, n - 1)

\* mutant: the digits are left least significant first
d2mdNoReverse(d) == D2mdLoop(<<>>, d, D2mdDigits)

d2md(d) == Reverse(D2mdLoop(<<>>, d, D2mdDigits))

\* ------------------------------------------------------------ numpy arrays
\* An array is its number of dimensions and its entries in order; a 0-d
\* array holds one entry and cannot be iterated.
Array1(seq) == [ndim |-> 1, data |-> seq]
Scalar(x) == [ndim |-> 0, data |-> <<x>>]

\* np.squeeze drops every axis of length one
squeeze(a) ==
    IF a.ndim = 1 /\ Len(a.data) = 1 THEN [ndim |-> 0, data |-> a.data] ELSE a

\* ---------------------------------------------------------------- topology
\* A crossing's light phases are given by the number of available road
\* links of each; a phase id is its 0-based position in that list.
PhaseClass(links) ==
    IF links > GreenLinks THEN "G"
    ELSE IF links = YellowLinks THEN "Y"
    ELSE IF links = RedLinks THEN "R"
    ELSE "Unrecognized"

PhaseIds(light_phases, cls) ==
    SelectSeq([k \in 1..Len(light_phases) |-> k - 1],
              LAMBDA id : PhaseClass(light_phases[id + 1]) = cls)

ParsePhases(light_phases) ==
    [G |-> PhaseIds(light_phases, "G"),
     Y |-> PhaseIds(light_phases, "Y"),
     R |-> PhaseIds(light_phases, "R")]

Crossings == 1..Len(crossing_phases)
NumGreen(c) == Len(crossing_phases[c].G)

\* ------------------------------------------------------------ engine calls
NoPhase == 0 - 1
NextStepCall == [op |-> "next_step", cross |-> 0, phase |-> NoPhase]
SetPhaseCall(c, p) == [op |-> "set_tl_phase", cross |-> c, phase |-> p]
\* self._eng.reset()
EngResetCall == [op |-> "reset", cross |-> 0, phase |-> NoPhase]

IsTick(e) == e.op = "next_step"
TickCount(l) == Len(SelectSeq(l, IsTick))
\* the phases set at crossing c by the calls of l, in order
CommandsTo(l, c) ==
    LET sets == SelectSeq(l, LAMBDA e : e.op = "set_tl_phase" /\ e.cross = c)
    IN  [k \in 1..Len(sets) |-> sets[k].phase]

RECURSIVE ApplyCalls(_, _)
\* the phase last set at each crossing after the calls of l; the engine's
\* reset forgets the phases set before it
ApplyCalls(ph, l) ==
    IF l = <<>> THEN ph
    ELSE LET e == Head(l)
         IN  ApplyCalls(IF IsTick(e) THEN ph
                        ELSE IF e.op = "reset" THEN [c \in DOMAIN ph |-> NoPhase]
                        ELSE [ph EXCEPT ![e.cross] = e.phase],
                        Tail(l))

\* --------------------------------------------------------------- _simulate
\* The statements of _simulate that touch the engine, in program order.  A
\* "set" statement looks the phase up in crossing_phases[cross][kind][idx],
\* which may raise IndexError, calls set_tl_phase, and, where assign holds,
\* stores idx in current_phases[cross].
TickStmt == [stmt |-> "tick", cross |-> 0, kind |-> "", idx |-> 0, assign |-> FALSE]
SetStmt(c, kind, idx, assign) ==
    [stmt |-> "set", cross |-> c, kind |-> kind, idx |-> idx, assign |-> assign]
Ticks(n) == [k \in 1..n |-> TickStmt]

\* zip(action, current_phases.items()) stops at the shorter of the two
Zipped(act, cur) ==
    [k \in 1..Min(Len(act), Len(cur)) |->
        [cross |-> k, act |-> act[k], cur_act |-> cur[k]]]

\* changed_tl_id, in insertion order
Changed(act, cur) == SelectSeq(Zipped(act, cur), LAMBDA e : e.act # e.cur_act)
Unchanged(act, cur) == SelectSeq(Zipped(act, cur), LAMBDA e : e.act = e.cur_act)

\* mutant: an unchanged crossing is put back to its initial Green phase
ReassertStageInitial(act, cur) ==
    LET u == Unchanged(act, cur)
    IN  [k \in 1..Len(u) |-> SetStmt(u[k].cross, "G", 0, TRUE)]

ReassertStage(act, cur) ==
    LET u == Unchanged(act, cur)
    IN  [k \in 1..Len(u) |-> SetStmt(u[k].cross, "G", u[k].act, TRUE)]

StepTicks == red_duration + yellow_duration + green_duration

FreeRunStage == Ticks(StepTicks)

\* mutant: the all-stop stage is commanded at every crossing
RedStageAll(changed) ==
    IF red_duration > 0
    THEN [c \in Crossings |-> SetStmt(c, "R", 0, FALSE)] \o Ticks(red_duration)
    ELSE <<>>

RedStage(changed) ==
    IF red_duration > 0
    THEN [k \in 1..Len(changed) |-> SetStmt(changed[k].cross, "R", 0, FALSE)]
         \o Ticks(red_duration)
    ELSE <<>>

\* mutant: the clearance phase of the phase being entered
YellowStageOfTarget(changed) ==
    IF yellow_duration > 0
    THEN [k \in 1..Len(changed) |->
             SetStmt(changed[k].cross, "Y", changed[k].act, FALSE)]
         \o Ticks(yellow_duration)
    ELSE <<>>

\* mutant: the clearance stage is commanded at every crossing
YellowStageAll(changed) ==
    IF yellow_duration > 0
    THEN [c \in Crossings |-> SetStmt(c, "Y", 0, FALSE)] \o Ticks(yellow_duration)
    ELSE <<>>

YellowStage(changed) ==
    IF yellow_duration > 0
    THEN [k \in 1..Len(changed) |->
             SetStmt(changed[k].cross, "Y", changed[k].cur_act, FALSE)]
         \o Ticks(yellow_duration)
    ELSE <<>>

\* mutant: like the other stages, the green stage is skipped when it is given
\* no time
GreenStageIfTimed(changed) ==
    IF green_duration > 0
    THEN [k \in 1..Len(changed) |->
             SetStmt(changed[k].cross, "G", changed[k].act, TRUE)]
         \o Ticks(green_duration)
    ELSE <<>>

GreenStage(changed) ==
    [k \in 1..Len(changed) |-> SetStmt(changed[k].cross, "G", changed[k].act, TRUE)]
    \o Ticks(green_duration)

\* mutant: with actions disabled only the green window is simulated
NoActionStageGreenOnly == Ticks(green_duration)

NoActionStage == Ticks(StepTicks)

SimulateStmts(act, cur) ==
    LET changed == Changed(act, cur)
    IN  ReassertStage(act, cur)
        \o (IF Len(changed) = 0
            THEN FreeRunStage
            ELSE RedStage(changed) \o YellowStage(changed) \o GreenStage(changed))

RECURSIVE Exec(_, _)
\* Runs the statements from st = [log, cur, raised] up to the first that raises.
Exec(stmts, st) ==
    IF stmts = <<>> THEN st
    ELSE LET s == Head(stmts)
         IN  IF s.stmt = "tick"
             THEN Exec(Tail(stmts), [st EXCEPT !.log = Append(@, NextStepCall)])
             ELSE LET lst == crossing_phases[s.cross][s.kind]
                  IN  IF ~InRange(lst, s.idx)
                      THEN [st EXCEPT !.raised = "IndexError"]
                      ELSE Exec(Tail(stmts),
                                [st EXCEPT
                                   !.log = Append(@, SetPhaseCall(s.cross, PyIndex(lst, s.idx))),
                                   !.cur = IF s.assign
                                           THEN [@ EXCEPT ![s.cross] = s.idx]
                                           ELSE @])

\* _simulate(action): [log, cur, raised, ticked], ticked being the amount
\* added to _total_duration
Simulate(a, cur) ==
    IF no_actions
    THEN Exec(NoActionStage, [log |-> <<>>, cur |-> cur, raised |-> "none"])
         @@ [ticked |-> StepTicks]
    ELSE IF a.ndim = 0
    THEN [log |-> <<>>, cur |-> cur, raised |-> "TypeError", ticked |-> 0]
    ELSE LET r == Exec(SimulateStmts(a.data, cur),
                       [log |-> <<>>, cur |-> cur, raised |-> "none"])
         IN  r @@ [ticked |-> IF r.raised = "none" THEN StepTicks ELSE 0]

\* ------------------------------------------------------------- _get_reward
\* Ids are strings, written as sequences of characters.
\* a in b for two strings: a occurs in b
IsSubstr(a, b) ==
    \E i \in 0..(Len(b) - Len(a)) : SubSeq(b, i + 1, i + Len(a)) = a

\* k[:-2]
LaneRoad(k) == SubSeq(k, 1, Len(k) - LaneSuffixLen)

\* the test of lines 153 and 157: k[:-2] in roads, roads being one road id
LaneMatches(k, roads) == IsSubstr(LaneRoad(k), roads)

RECURSIVE WaitingOn(_, _, _)
\* sum of v over the lanes k of the snapshot with k[:-2] in roads
WaitingOn(roads, lanes, waiting) ==
    IF lanes = <<>> THEN 0
    ELSE (IF LaneMatches(Head(lanes), roads) THEN Head(waiting) ELSE 0)
         + WaitingOn(roads, Tail(lanes), Tail(waiting))

RECURSIVE WaitingOnAll(_, _, _)
WaitingOnAll(road_list, lanes, waiting) ==
    IF road_list = <<>> THEN 0
    ELSE WaitingOn(Head(road_list), lanes, waiting)
         + WaitingOnAll(Tail(road_list), lanes, waiting)

CrossReward(c, waiting) ==
    WaitingOnAll(crossing_in_roads[c], all_lanes, waiting)
    - WaitingOnAll(crossing_out_roads[c], all_lanes, waiting)

get_reward(waiting) == [c \in Crossings |-> 0 - CrossReward(c, waiting)]

\* ---------------------------------------------------------------- _get_obs
ObsChannels == {"phase", "lane_vehicle_num", "lane_waiting_vehicle_num"}

\* mutant: the block marks the Green index after the current one
OneHotNext(n, ph) == [k \in 1..n |-> IF k - 1 = (ph + 1) % n THEN 1 ELSE 0]

\* onehot_phase = [0] * n; onehot_phase[ph] = 1, a negative ph counting from
\* the end of the list
OneHot(n, ph) ==
    [k \in 1..n |-> IF k - 1 = (IF ph < 0 THEN ph + n ELSE ph) THEN 1 ELSE 0]

\* x in lst, lst a list
ListHas(lst, x) == \E k \in 1..Len(lst) : lst[k] = x

RECURSIVE LaneNums(_, _, _)
\* the counts v of the lanes k with k[:-2] in roads, roads being the list of
\* a crossing's incoming roads, in the order the engine reports the lanes
LaneNums(roads, lanes, counts) ==
    IF lanes = <<>> THEN <<>>
    ELSE (IF ListHas(roads, LaneRoad(Head(lanes))) THEN <<Head(counts)>> ELSE <<>>)
         \o LaneNums(roads, Tail(lanes), Tail(counts))

\* _get_obs with the Green indices cur and the counts the engine reports
get_obs(cur, vehicle_num, waiting_num) ==
    [c \in Crossings |->
        (IF "phase" \in obs_type THEN OneHot(NumGreen(c), cur[c]) ELSE <<>>)
        \o (IF "lane_vehicle_num" \in obs_type
            THEN LaneNums(crossing_in_roads[c], all_lanes, vehicle_num) ELSE <<>>)
        \o (IF "lane_waiting_vehicle_num" \in obs_type
            THEN LaneNums(crossing_in_roads[c], all_lanes, waiting_num) ELSE <<>>)]

\* self._road_lanes[r]
RoadLanes(r) == SelectSeq(all_lanes, LAMBDA k : LaneRoad(k) = r)

RECURSIVE LanesOfRoads(_)
LanesOfRoads(road_list) ==
    IF road_list = <<>> THEN 0
    ELSE Len(RoadLanes(Head(road_list))) + LanesOfRoads(Tail(road_list))

\* obs_len of _init_info, the length of the declared observation space
obs_len ==
    (IF "phase" \in obs_type THEN SumSeq([c \in Crossings |-> NumGreen(c)]) ELSE 0)
    + (IF "lane_vehicle_num" \in obs_type
       THEN SumSeq([c \in Crossings |-> LanesOfRoads(crossing_in_roads[c])]) ELSE 0)
    + (IF "lane_waiting_vehicle_num" \in obs_type
       THEN SumSeq([c \in Crossings |-> LanesOfRoads(crossing_in_roads[c])]) ELSE 0)

\* ------------------------------------------------------------------ inputs
RECURSIVE Vectors(_, _)
\* the vectors of length n over 0..m
Vectors(n, m) ==
    IF n = 0 THEN {<<>>}
    ELSE {Append(v, x) : v \in Vectors(n - 1, m), x \in 0..m}

\* the waiting counts the engine may report: at most MaxWait on each lane
Snapshots == Vectors(Len(all_lanes), MaxWait)
\* during an episode: at most MaxQueued vehicles waiting in the whole network
EpisodeSnapshots == {w \in Snapshots : SumSeq(w) <= MaxQueued}

\* what the engine may report when an observation is built: the waiting and
\* the vehicle counts of each lane, the waiting vehicles being among the
\* vehicles
CountPairs ==
    {p \in EpisodeSnapshots \X EpisodeSnapshots :
        \A k \in 1..Len(all_lanes) : p[1][k] <= p[2][k]}

\* a count the code does not ask the engine for
NotRead == <<>>

\* what a call reads from the engine after its ticks: the counts of the
\* channels that are enabled and, in step, the sum of the rewards
Reading(waiting, vehicles, rew) ==
    [rew |-> rew,
     vehicle_num |-> IF "lane_vehicle_num" \in obs_type THEN vehicles ELSE NotRead,
     waiting_num |-> IF "lane_waiting_vehicle_num" \in obs_type THEN waiting ELSE NotRead]

\* reset reads no reward, and no count at all unless a lane channel is on
ResetReadings ==
    IF obs_type \subseteq {"phase"} THEN {Reading(NotRead, NotRead, 0)}
    ELSE {Reading(p[1], p[2], 0) : p \in CountPairs}

\* step reads the waiting counts for the reward, and the vehicle counts only
\* if their channel is on
StepReadings ==
    IF "lane_vehicle_num" \in obs_type
    THEN {Reading(p[1], p[2], SumSeq(get_reward(p[1]))) : p \in CountPairs}
    ELSE {Reading(w, NotRead, SumSeq(get_reward(w))) : w \in EpisodeSnapshots}

\* the declared action space, MultiDiscrete(act_shape)
ActionSpace == {v \in [Crossings -> 0..MaxEntry] : \A c \in Crossings : v[c] < NumGreen(c)}

\* what a caller hands to step for the vector v
ActionFor(v) == IF from_discrete THEN Scalar(md2d(v)) ELSE Array1(v)

\* --------------------------------------------------------- reset and step
NoAction == Array1(<<>>)
NoReturn == [reward |-> 0, done |-> FALSE, info |-> <<>>]

\* the set_tl_phase calls of the loop of reset, lines 208-212
ResetGreenCalls ==
    IF no_actions THEN <<>>
    ELSE [c \in Crossings |-> SetPhaseCall(c, PyIndex(crossing_phases[c].G, 0))]

\* mutant: the first Green phases are set before the engine is reset
ResetCallsGreenFirst == ResetGreenCalls \o <<EngResetCall>>

\* the engine calls of reset, in program order
ResetCalls == <<EngResetCall>> \o ResetGreenCalls

\* mutant: every crossing starts at index -1, the last entry of a list
ResetPhasesLast == [c \in Crossings |-> 0 - 1]

\* self._current_phases after the loop of reset
ResetPhases == [c \in Crossings |-> 0]

\* reset(), rd being what the engine reports when the observation is built
ResetWith(rd) ==
    /\ eng_ticks' = 0
    /\ total_duration' = 0
    /\ total_reward' = 0
    /\ log' = ResetCalls
    /\ eng_phase' = ApplyCalls(eng_phase, ResetCalls)
    /\ current_phases' = ResetPhases
    /\ call' = "reset"
    /\ action' = NoAction
    /\ targets' = NoAction
    /\ raised' = "none"
    /\ ret' = NoReturn
    /\ nsteps' = 0
    /\ done_seen' = FALSE
    /\ obs' = get_obs(ResetPhases, rd.vehicle_num, rd.waiting_num)
    /\ returned_sum' = 0
    /\ UNCHANGED <<cfgvars, codecvars, rewardvars>>

Reset == \E rd \in ResetReadings : ResetWith(rd)

\* mutant: done as soon as the limit is reached
DoneAtLimit(dur) == dur >= max_episode_duration

\* done = self._total_duration > self._max_episode_duration
Done(dur) == dur > max_episode_duration

\* mutant: the episode's reward is the reward of the latest step
AddRewardLast(tot, rew) == rew

\* self._total_reward += reward
AddReward(tot, rew) == tot + rew

\* info = {}; if done: info['final_eval_reward'] = self._total_reward
StepInfo(done, tot) == IF done THEN <<tot>> ELSE <<>>

\* step(a).  step is called after reset: before the first reset there is no
\* _current_phases and no _total_duration.  After the ticks the engine
\* reports one of readings: the counts the observation is built from and
\* the sum of the rewards.  When _simulate raises, step reads and returns
\* nothing, and what _simulate did before raising stays done.
StepWith(a, readings) ==
    /\ call # "init"
    /\ nsteps < MaxSteps
    /\ \E tg \in {IF from_discrete THEN Array1(d2md(squeeze(a).data[1]))
                                   ELSE squeeze(a)} :
       \E sim \in {Simulate(tg, current_phases)} :
          LET dur == total_duration + sim.ticked
              done == Done(dur)
          IN  /\ call' = "step"
              /\ nsteps' = nsteps + 1
              /\ action' = a
              /\ targets' = tg
              /\ log' = sim.log
              /\ raised' = sim.raised
              /\ current_phases' = sim.cur
              /\ eng_ticks' = eng_ticks + TickCount(sim.log)
              /\ eng_phase' = ApplyCalls(eng_phase, sim.log)
              /\ total_duration' = dur
              /\ IF sim.raised = "none"
                 THEN \E rd \in readings :
                      LET tot == AddReward(total_reward, rd.rew)
                      IN  /\ total_reward' = tot
                          /\ ret' = [reward |-> rd.rew, done |-> done,
                                     info |-> StepInfo(done, tot)]
                          /\ done_seen' = (done_seen \/ done)
                          /\ obs' = get_obs(sim.cur, rd.vehicle_num, rd.waiting_num)
                          /\ returned_sum' = returned_sum + rd.rew
                 ELSE /\ total_reward' = total_reward
                      /\ ret' = NoReturn
                      /\ done_seen' = done_seen
                      /\ obs' = <<>>
                      /\ returned_sum' = returned_sum
              /\ UNCHANGED <<cfgvars, codecvars, rewardvars>>

Step == \E rds \in {StepReadings} : \E v \in ActionSpace : StepWith(ActionFor(v), rds)

\* ---------------------------------------------------------------- networks
\* A road network as _parse_config_file reads it: the light phases of each
\* non-virtual crossing (available road links per phase), its incoming and
\* outgoing roads, and the lanes the engine reports (road id, "_", index).
RoadA == <<"a">>
RoadB == <<"b">>
RoadC == <<"c">>
RoadR1 == <<"r", "1">>
RoadR11 == <<"r", "1", "1">>
RoadR2 == <<"r", "2">>
Lane(road, n) == road \o <<"_", n>>

NetSingle ==
    [light_phases |-> << <<0, 8, 4, 8, 4, 8, 4, 8, 4>> >>,
     in_roads  |-> << <<RoadA>> >>,
     out_roads |-> << <<RoadB>> >>,
     lanes     |-> <<Lane(RoadA, "0"), Lane(RoadB, "0")>>]

NetPair ==
    [light_phases |-> << <<8, 4, 0, 8, 4>>, <<0, 0, 5, 4, 6, 4, 7, 4>> >>,
     in_roads  |-> << <<RoadA>>, <<RoadB>> >>,
     out_roads |-> << <<RoadB>>, <<RoadA>> >>,
     lanes     |-> <<Lane(RoadA, "0"), Lane(RoadB, "0")>>]

NetTriple ==
    [light_phases |-> << <<0, 5, 4, 6, 4>>, <<0, 5, 4, 6, 4>>, <<0, 5, 4, 6, 4>> >>,
     in_roads  |-> << <<RoadA>>, <<RoadB>>, <<RoadC>> >>,
     out_roads |-> << <<RoadB>>, <<RoadC>>, <<RoadA>> >>,
     lanes     |-> <<Lane(RoadA, "0"), Lane(RoadB, "0"), Lane(RoadC, "0")>>]

\* two incoming roads, one of two lanes
NetFork ==
    [light_phases |-> << <<0, 8, 4, 8, 4>> >>,
     in_roads  |-> << <<RoadA, RoadB>> >>,
     out_roads |-> << <<RoadC>> >>,
     lanes     |-> <<Lane(RoadA, "0"), Lane(RoadA, "1"), Lane(RoadB, "0"),
                     Lane(RoadC, "0")>>]

\* road r1 leaves the first crossing, road r11 enters it
NetPrefix ==
    [light_phases |-> << <<0, 8, 4, 8, 4>>, <<0, 8, 4, 8, 4>> >>,
     in_roads  |-> << <<RoadR11>>, <<RoadR1>> >>,
     out_roads |-> << <<RoadR1>>, <<RoadR2>> >>,
     lanes     |-> <<Lane(RoadR11, "0"), Lane(RoadR1, "0"), Lane(RoadR2, "0")>>]

Networks == {NetSingle, NetPair, NetTriple}
RewardNetworks == Networks \cup {NetFork, NetPrefix}

\* -------------------------------------------------------------------- Init
\* __init__: the configuration is read, nothing else is set
InitConfigOf(net, r, y, g, na, fd, ot) ==
    /\ crossing_phases = [c \in 1..Len(net.light_phases) |->
                              ParsePhases(net.light_phases[c])]
    /\ crossing_in_roads = net.in_roads
    /\ crossing_out_roads = net.out_roads
    /\ all_lanes = net.lanes
    /\ red_duration = r
    /\ yellow_duration = y
    /\ green_duration = g
    /\ max_episode_duration = MaxEpisode
    /\ no_actions = na
    /\ from_discrete = fd
    /\ obs_type = ot

InitConfig(net) ==
    \E r \in 0..MaxDur, y \in 0..MaxDur, g \in 0..MaxDur,
       na \in BOOLEAN, fd \in BOOLEAN :
           InitConfigOf(net, r, y, g, na, fd, {"phase"})

InitEnv ==
    /\ current_phases = <<>>
    /\ total_duration = 0
    /\ total_reward = 0
    /\ eng_ticks = 0
    /\ eng_phase = [c \in Crossings |-> NoPhase]
    /\ call = "init"
    /\ action = NoAction
    /\ targets = NoAction
    /\ raised = "none"
    /\ log = <<>>
    /\ ret = NoReturn
    /\ nsteps = 0
    /\ done_seen = FALSE
    /\ obs = <<>>
    /\ returned_sum = 0

InitCodec ==
    /\ md_action = <<>>
    /\ d_action = 0
    /\ decoded = <<>>
    /\ codec_pc = "idle"

InitReward ==
    /\ eng_waiting = [k \in 1..Len(all_lanes) |-> 0]
    /\ reward = [c \in Crossings |-> 0]

Init ==
    /\ \E net \in Networks : InitConfig(net)
    /\ InitEnv
    /\ InitCodec
    /\ InitReward

Next == Reset \/ Step

Spec == Init /\ [][Next]_vars

\* ---------------------------------------------- every choice of channels
\* The two-crossing ring is observed with every choice of channels in every
\* mode, the crossing with two incoming roads with every choice of channels
\* under the vector encoding, the ring of three crossings with the phase
\* channel alone or with no channel.
InitObs ==
    /\ \E na \in BOOLEAN :
          \/ \E fd \in BOOLEAN, ot \in SUBSET ObsChannels :
                InitConfigOf(NetPair, 1, 1, 1, na, fd, ot)
          \/ \E ot \in SUBSET ObsChannels :
                InitConfigOf(NetFork, 1, 1, 1, na, FALSE, ot)
          \/ \E fd \in BOOLEAN, ot \in SUBSET {"phase"} :
                InitConfigOf(NetTriple, 1, 1, 1, na, fd, ot)
    /\ InitEnv
    /\ InitCodec
    /\ InitReward

SpecObs == InitObs /\ [][Next]_vars

\* -------------------------------------------- actions outside the action space
\* one entry just outside its crossing's Green range, the others inside
InvalidAt(v, c) == {[v EXCEPT ![c] = x] : x \in {0 - 1, NumGreen(c)}}
InvalidVectors == UNION {InvalidAt(v, c) : v \in ActionSpace, c \in Crossings}

RECURSIVE Product(_)
Product(s) == IF s = <<>> THEN 1 ELSE Head(s) * Product(Tail(s))

\* the number of valid phase vectors: numBranches^numIntersections
FlatLimit == Product([c \in Crossings |-> NumGreen(c)])

RECURSIVE Power(_, _)
Power(b, n) == IF n = 0 THEN 1 ELSE b * Power(b, n - 1)

InvalidFlats == {FlatLimit, FlatLimit + 1, Power(D2mdRadix, D2mdDigits)}

InvalidActions ==
    IF from_discrete THEN {Scalar(f) : f \in InvalidFlats}
    ELSE {Array1(v) : v \in InvalidVectors}

StepInvalid ==
    \E rds \in {StepReadings} : \E a \in InvalidActions : StepWith(a, rds)

NextInvalid == Reset \/ Step \/ StepInvalid

SpecInvalid == Init /\ [][NextInvalid]_vars

\* the same calls on an environment configured with actions disabled
InitNoAction ==
    /\ \E net \in Networks, r \in 0..MaxDur, y \in 0..MaxDur, g \in 0..MaxDur,
          fd \in BOOLEAN : InitConfigOf(net, r, y, g, TRUE, fd, {"phase"})
    /\ InitEnv
    /\ InitCodec
    /\ InitReward

SpecNoAction == InitNoAction /\ [][NextInvalid]_vars

\* ----------------------------------------------------- the codec on its own
InitCodecInput ==
    /\ InitConfigOf(NetSingle, 0, 0, 0, FALSE, TRUE, {"phase"})
    /\ InitEnv
    /\ InitReward
    /\ \E n \in 0..MaxVecLen : md_action \in Vectors(n, MaxEntry)
    /\ d_action = 0
    /\ decoded = <<>>
    /\ codec_pc = "input"

Encode ==
    /\ codec_pc = "input"
    /\ d_action' = md2d(md_action)
    /\ codec_pc' = "encoded"
    /\ UNCHANGED <<cfgvars, envvars, rewardvars, md_action, decoded>>

Decode ==
    /\ codec_pc = "encoded"
    /\ decoded' = d2md(d_action)
    /\ codec_pc' = "decoded"
    /\ UNCHANGED <<cfgvars, envvars, rewardvars, md_action, d_action>>

NextCodec == Encode \/ Decode

SpecCodec == InitCodecInput /\ [][NextCodec]_vars

\* ------------------------------------------------- _get_reward on its own
InitRewardInput ==
    /\ \E net \in RewardNetworks : InitConfigOf(net, 0, 0, 0, FALSE, FALSE, {"phase"})
    /\ InitEnv
    /\ InitCodec
    /\ InitReward

\* the engine reports the waiting counts w and _get_reward runs on them
GetReward ==
    \E w \in Snapshots :
        /\ eng_waiting' = w
        /\ reward' = get_reward(w)
        /\ UNCHANGED <<cfgvars, envvars, codecvars>>

NextReward == GetReward

SpecReward == InitRewardInput /\ [][NextReward]_vars

\* ================================================================== claims
\* a transition that is a call of step
IsStepCall == call' = "step" /\ nsteps' = nsteps + 1
\* the phase list of one kind at crossing c
Green(c) == crossing_phases[c].G
Yellow(c) == crossing_phases[c].Y
Red(c) == crossing_phases[c].R
InList(lst, x) == \E k \in 1..Len(lst) : lst[k] = x
\* the commands of one kind among the commands cmds sent to crossing c
YellowOf(c, cmds) == SelectSeq(cmds, LAMBDA p : InList(Yellow(c), p))

\* C1 -- Tick conservation: every call of step, whatever the action and in
\* both modes, issues exactly red + yellow + green next_step calls and adds
\* exactly that amount to the cumulative duration, so that the cumulative
\* duration equals the ticks issued since reset.
C1_TickConservation ==
    [][IsStepCall =>
          /\ TickCount(log') = StepTicks
          /\ total_duration' = total_duration + StepTicks
          /\ total_duration' = eng_ticks']_vars

\* C1, for the calls of step that return: the same statement holds of them.
C1_TickConservationOnReturn ==
    [][(IsStepCall /\ raised' = "none") =>
          /\ TickCount(log') = StepTicks
          /\ total_duration' = total_duration + StepTicks
          /\ total_duration' = eng_ticks']_vars

\* C2 -- Clearance correctness: in a step with yellow_duration > 0, every
\* Yellow phase commanded at a crossing whose target differs from its phase
\* index p before the step is Yellow[p] (never Yellow[target]), and with
\* actions enabled a step that returns commands it exactly once.
C2_ClearanceCorrectness ==
    [][(IsStepCall /\ yellow_duration > 0) =>
          \A c \in Crossings :
              targets'.data[c] # current_phases[c] =>
                  LET ys == YellowOf(c, CommandsTo(log', c))
                      p  == current_phases[c]
                  IN  /\ \A k \in 1..Len(ys) : ys[k] = PyIndex(Yellow(c), p)
                      /\ (~no_actions /\ raised' = "none") => Len(ys) = 1]_vars

\* a step has just returned in which one crossing went through Yellow of the
\* phase it left while its target was another phase
C2_Witness ==
    /\ call = "step" /\ raised = "none" /\ yellow_duration > 0
    /\ \E c \in Crossings :
          /\ current_phases[c] = 1
          /\ YellowOf(c, CommandsTo(log, c)) = <<PyIndex(Yellow(c), 0)>>
          /\ PyIndex(Yellow(c), 0) # PyIndex(Yellow(c), 1)

\* C3 -- Isolation: in a step in which at least one crossing transitions, a
\* crossing whose target equals its current phase receives exactly one
\* command, its own Green[current], and so no Red and no Yellow.
C3_Isolation ==
    [][(IsStepCall /\ ~no_actions /\ targets'.ndim = 1
          /\ Changed(targets'.data, current_phases) # <<>>) =>
          \A c \in Crossings :
              targets'.data[c] = current_phases[c] =>
                  CommandsTo(log', c) = <<PyIndex(Green(c), current_phases[c])>>]_vars

\* a step has just returned in which one crossing was taken through Red,
\* Yellow and Green while another received its Green only
C3_Witness ==
    /\ call = "step" /\ raised = "none"
    /\ red_duration > 0 /\ yellow_duration > 0
    /\ \E c, d \in Crossings :
          /\ Len(CommandsTo(log, c)) = 3
          /\ CommandsTo(log, d) = <<PyIndex(Green(d), current_phases[d])>>

\* C4 -- No-op stability: when the target equals the current phase at every
\* crossing, every command step issues is the re-assertion Green[current] of
\* its crossing, at most one per crossing and exactly one when actions are
\* enabled and step returns, and current_phases is the same after the call.
C4_NoOpStability ==
    [][(IsStepCall /\ \A c \in Crossings : targets'.data[c] = current_phases[c]) =>
          /\ current_phases' = current_phases
          /\ \A c \in Crossings :
                LET cmds == CommandsTo(log', c)
                IN  /\ Len(cmds) <= 1
                    /\ \A k \in 1..Len(cmds) :
                          cmds[k] = PyIndex(Green(c), current_phases[c])
                    /\ (~no_actions /\ raised' = "none") => Len(cmds) = 1]_vars

\* a second step has returned with every crossing re-asserted in a phase
\* other than the initial one
C4_Witness ==
    /\ call = "step" /\ raised = "none" /\ ~no_actions /\ nsteps = 2
    /\ \A c \in Crossings :
          /\ current_phases[c] = 1
          /\ CommandsTo(log, c) = <<PyIndex(Green(c), 1)>>

\* C5 -- Termination: the done flag a step returns is true exactly when the
\* cumulative duration after the step's ticks strictly exceeds
\* max_episode_duration, and once a step has returned done = True no later
\* step before the next reset returns done = False.
C5_Termination ==
    /\ [](call = "step" /\ raised = "none" =>
             (ret.done <=> total_duration > max_episode_duration))
    /\ [][(done_seen /\ IsStepCall /\ raised' = "none") => ret'.done]_vars

\* a step returns done = True after an earlier step already had
C5_Witness ==
    /\ call = "step" /\ raised = "none" /\ ret.done /\ nsteps = 2
    /\ total_duration - StepTicks > max_episode_duration

\* a step returned done = False with the duration exactly at the limit
C5_AtLimit ==
    /\ call = "step" /\ raised = "none" /\ ~ret.done
    /\ total_duration = max_episode_duration

InvalidAction(a) ==
    IF from_discrete THEN a.data[1] > FlatLimit - 1
    ELSE \E c \in Crossings : ~(0 <= a.data[c] /\ a.data[c] < NumGreen(c))

\* C7 -- Invalid action rejection: a step given an action outside the
\* declared bounds fails before any engine mutation: no phase command, no
\* tick, current_phases and the cumulative duration unchanged.
C7_InvalidActionRejected ==
    [][(IsStepCall /\ InvalidAction(action')) =>
          /\ raised' # "none"
          /\ log' = <<>>
          /\ eng_ticks' = eng_ticks
          /\ eng_phase' = eng_phase
          /\ current_phases' = current_phases
          /\ total_duration' = total_duration]_vars

\* the position in l of the n-th set_tl_phase call for crossing c
RECURSIVE PosOfCommand(_, _, _, _)
PosOfCommand(l, c, n, from) ==
    IF from > Len(l) THEN 0
    ELSE IF l[from].op = "set_tl_phase" /\ l[from].cross = c
         THEN IF n = 1 THEN from ELSE PosOfCommand(l, c, n - 1, from + 1)
         ELSE PosOfCommand(l, c, n, from + 1)
\* the next_step calls of l after position i and before position j
TicksBetween(l, i, j) == Cardinality({k \in (i + 1)..(j - 1) : IsTick(l[k])})

\* what C8 says of crossing c in the step that produced log l from phase p
\* with target t
Staged(l, c, p, t) ==
    LET r == PosOfCommand(l, c, 1, 1)
        y == PosOfCommand(l, c, 2, 1)
        g == PosOfCommand(l, c, 3, 1)
    IN  /\ CommandsTo(l, c) = <<PyIndex(Red(c), 0), PyIndex(Yellow(c), p),
                                PyIndex(Green(c), t)>>
        /\ TicksBetween(l, r, y) = red_duration
        /\ TicksBetween(l, y, g) = yellow_duration
        /\ TicksBetween(l, g, Len(l) + 1) = green_duration

\* C8 -- Staged transition order: in a step where some crossing's target
\* differs from its phase and all three durations are positive, each such
\* crossing receives exactly Red[0], Yellow[previous], Green[target], with
\* red, yellow and green ticks after each, and its phase index becomes the
\* target.
C8_StagedTransition ==
    [][(/\ IsStepCall /\ ~no_actions
        /\ red_duration > 0 /\ yellow_duration > 0 /\ green_duration > 0) =>
          \A c \in Crossings :
              targets'.data[c] # current_phases[c] =>
                  /\ Staged(log', c, current_phases[c], targets'.data[c])
                  /\ current_phases'[c] = targets'.data[c]]_vars

\* C8, for the calls of step that return: the same statement holds of them.
C8_StagedTransitionOnReturn ==
    [][(/\ IsStepCall /\ ~no_actions /\ raised' = "none"
        /\ red_duration > 0 /\ yellow_duration > 0 /\ green_duration > 0) =>
          \A c \in Crossings :
              targets'.data[c] # current_phases[c] =>
                  /\ Staged(log', c, current_phases[c], targets'.data[c])
                  /\ current_phases'[c] = targets'.data[c]]_vars

\* C9 -- Reward bound: whatever the waiting counts, the reward of every
\* crossing and their sum are <= 0, and all are 0 when no vehicle waits.
C9_RewardBound ==
    /\ \A c \in Crossings : reward[c] <= 0
    /\ SumSeq(reward) <= 0
    /\ (\A k \in 1..Len(eng_waiting) : eng_waiting[k] = 0) =>
           \A c \in Crossings : reward[c] = 0

\* the waiting vehicles on the lanes that belong to road r: those whose id
\* without the lane suffix is r
RECURSIVE WaitingOnRoad(_, _, _)
WaitingOnRoad(r, lanes, waiting) ==
    IF lanes = <<>> THEN 0
    ELSE (IF LaneRoad(Head(lanes)) = r THEN Head(waiting) ELSE 0)
         + WaitingOnRoad(r, Tail(lanes), Tail(waiting))
RECURSIVE WaitingOnRoads(_, _, _)
WaitingOnRoads(road_list, lanes, waiting) ==
    IF road_list = <<>> THEN 0
    ELSE WaitingOnRoad(Head(road_list), lanes, waiting)
         + WaitingOnRoads(Tail(road_list), lanes, waiting)

\* C10 -- Reward formula: the reward of each crossing is -(I - O), I and O
\* the waiting vehicles on exactly the lanes of its incoming and of its
\* outgoing roads.
C10_RewardFormula ==
    \A c \in Crossings :
        reward[c] = 0 - (WaitingOnRoads(crossing_in_roads[c], all_lanes, eng_waiting)
                         - WaitingOnRoads(crossing_out_roads[c], all_lanes, eng_waiting))

\* the place of the engine's reset among the calls of l, 0 if there is none
ResetPos(l) ==
    IF \E i \in 1..Len(l) : l[i].op = "reset"
    THEN CHOOSE i \in 1..Len(l) : l[i].op = "reset" /\ \A j \in 1..(i - 1) : l[j].op # "reset"
    ELSE 0

\* C11 -- Reset postcondition: after a reset, whatever came before it, every
\* crossing is at Green index 0 and the episode's duration and reward are 0;
\* the engine has been reset and ticked no further; with actions enabled
\* each crossing has been sent Green[0], once and after the engine's reset,
\* and with actions disabled no phase has been sent.
C11_ResetPostcondition ==
    call = "reset" =>
        /\ raised = "none"
        /\ DOMAIN current_phases = Crossings
        /\ \A c \in Crossings : current_phases[c] = 0
        /\ total_duration = 0
        /\ total_reward = 0
        /\ eng_ticks = 0
        /\ TickCount(log) = 0
        /\ ResetPos(log) = 1
        /\ \A c \in Crossings :
              IF no_actions
              THEN CommandsTo(log, c) = <<>> /\ eng_phase[c] = NoPhase
              ELSE /\ CommandsTo(SubSeq(log, ResetPos(log) + 1, Len(log)), c)
                        = <<Green(c)[1]>>
                   /\ CommandsTo(log, c) = <<Green(c)[1]>>
                   /\ eng_phase[c] = Green(c)[1]

\* a reset of a network of several crossings with actions enabled: the
\* engine shows Green[0] at each of them and the counters are at 0
C11_Witness ==
    /\ call = "reset"
    /\ ~no_actions
    /\ Len(crossing_phases) > 1
    /\ \A c \in Crossings : eng_phase[c] = Green(c)[1]
    /\ total_duration = 0
    /\ nsteps = 0

\* C12 -- No-action mode: with actions disabled a step, whatever action it
\* is given, sends no phase to the engine, ticks it exactly red + yellow +
\* green times, adds as much to the duration, returns, and leaves the Green
\* index of every crossing and the engine's phases as they were.
C12_NoActionMode ==
    [][(IsStepCall /\ no_actions) =>
           /\ raised' = "none"
           /\ Len(log') = StepTicks
           /\ \A i \in 1..Len(log') : IsTick(log'[i])
           /\ eng_ticks' = eng_ticks + StepTicks
           /\ total_duration' = total_duration + StepTicks
           /\ current_phases' = current_phases
           /\ eng_phase' = eng_phase]_vars

\* with actions disabled, a second step was given an action outside the
\* action space and ticked the engine
C12_Witness ==
    /\ call = "step"
    /\ no_actions
    /\ nsteps = 2
    /\ InvalidAction(action)
    /\ StepTicks > 1
    /\ eng_ticks = 2 * StepTicks

\* the observation has been returned by the latest call
ObsReturned == call \in {"reset", "step"} /\ raised = "none"
\* the block of crossing c in the phase channel
PhaseBlock(c) == SubSeq(obs[c], 1, NumGreen(c))

\* C13 -- Phase observation: with the phase channel enabled, the observation
\* reset or step returns starts, for each crossing, with a block of as many
\* entries as the crossing has Green phases, all 0 but a single 1 at the
\* crossing's current Green index: index 0 after reset, the target handed to
\* the controller after a step with actions enabled.  The observation has
\* the declared length on every call.
C13_PhaseObservation ==
    (ObsReturned /\ "phase" \in obs_type) =>
        /\ DOMAIN obs = Crossings
        /\ \A c \in Crossings :
              /\ Len(obs[c]) >= NumGreen(c)
              /\ \A k \in 1..NumGreen(c) :
                    PhaseBlock(c)[k] = IF k = current_phases[c] + 1 THEN 1 ELSE 0
              /\ call = "reset" => PhaseBlock(c)[1] = 1
              /\ (call = "step" /\ ~no_actions) => PhaseBlock(c)[targets.data[c] + 1] = 1
        /\ SumSeq([c \in Crossings |-> Len(obs[c])]) = obs_len

\* a step on a network of several crossings, all three channels on,
\* returned an observation whose phase block marks a target other than 0 and
\* whose lane entries are not all 0
C13_Witness ==
    /\ call = "step"
    /\ raised = "none"
    /\ obs_type = ObsChannels
    /\ ~no_actions
    /\ Len(crossing_phases) > 1
    /\ \E c \in Crossings :
          /\ targets.data[c] > 0
          /\ PhaseBlock(c)[targets.data[c] + 1] = 1
          /\ \E k \in (NumGreen(c) + 1)..Len(obs[c]) : obs[c][k] > 0

\* C14 -- Episode reward reporting: the info of a step carries the episode's
\* reward exactly when the step returns done, and the value carried is the
\* sum of the rewards returned by the steps since the last reset, that step
\* included.
C14_EpisodeReward ==
    (call = "step" /\ raised = "none") =>
        /\ (ret.info # <<>>) <=> ret.done
        /\ ret.done => ret.info = <<returned_sum>>

\* the second step of an episode returned done, each of the two steps having
\* returned the reward -1
C14_Witness ==
    /\ call = "step"
    /\ raised = "none"
    /\ nsteps = 2
    /\ ret.done
    /\ ret.reward = 0 - 1
    /\ returned_sum = 0 - 2
    /\ ret.info = <<0 - 2>>

\* every crossing has as many Green phases as the first: numBranches
UniformGreens == \A c \in Crossings : NumGreen(c) = NumGreen(1)
\* the i-th most significant digit of flat written in base numBranches with
\* as many digits as there are crossings
ClaimedDigit(flat, i) ==
    (flat \div Power(NumGreen(1), Len(crossing_phases) - i)) % NumGreen(1)

\* C15 -- Flat discrete targets: under the flat encoding with actions
\* enabled, a step given a flat index below numBranches^numIntersections
\* returns and leaves the i-th crossing at the i-th most significant digit
\* of the index in base numBranches, written with numIntersections digits,
\* whatever the number of crossings and of Green phases.
C15_FlatTargets ==
    [][(IsStepCall /\ from_discrete /\ ~no_actions /\ UniformGreens
        /\ action'.data[1] < FlatLimit) =>
           /\ raised' = "none"
           /\ \A c \in Crossings :
                 current_phases'[c] = ClaimedDigit(action'.data[1], c)]_vars

\* what d2md does compute: the four base-4 digits of an index below 4^4
C15_FourDigitsBaseFour ==
    (codec_pc = "decoded" /\ d_action < Power(D2mdRadix, D2mdDigits)) =>
        /\ Len(decoded) = D2mdDigits
        /\ \A i \in 1..D2mdDigits :
              decoded[i] = (d_action \div Power(D2mdRadix, D2mdDigits - i)) % D2mdRadix

\* some command of l to crossing c sets a phase of the list phases
Commanded(l, c, phases) ==
    \E k \in 1..Len(CommandsTo(l, c)) : InList(phases, CommandsTo(l, c)[k])

\* what C16 says of a step from Green indices cur that handed the targets tg
\* to the controller and made the engine calls l
ZeroStagesSkipped(cur, tg, l) ==
    /\ red_duration = 0 => \A c \in Crossings : ~Commanded(l, c, Red(c))
    /\ yellow_duration = 0 => \A c \in Crossings : ~Commanded(l, c, Yellow(c))
    /\ (red_duration = 0 /\ yellow_duration = 0) =>
          /\ \A c \in Crossings :
                tg.data[c] # cur[c] => CommandsTo(l, c) = <<PyIndex(Green(c), tg.data[c])>>
          /\ TickCount(l) = green_duration

\* C16 -- Zero-duration stages are skipped: in a step where the target of
\* some crossing differs from its Green index, no crossing is sent a Red
\* phase when the red duration is 0 and none a Yellow phase when the yellow
\* duration is 0; with both 0 each crossing that changes is sent Green[target]
\* and nothing else, and the step ticks the engine exactly green times.
C16_ZeroDurationStages ==
    [][(IsStepCall /\ ~no_actions
        /\ \E c \in Crossings : targets'.data[c] # current_phases[c]) =>
           ZeroStagesSkipped(current_phases, targets', log')]_vars

\* C16, for the calls of step that return: the same statement holds of them.
C16_ZeroDurationStagesOnReturn ==
    [][(IsStepCall /\ ~no_actions /\ raised' = "none"
        /\ \E c \in Crossings : targets'.data[c] # current_phases[c]) =>
           ZeroStagesSkipped(current_phases, targets', log')]_vars

\* the places of the ticks among the engine calls l
TickPlaces(l) == {i \in 1..Len(l) : IsTick(l[i])}

\* C17 -- Uninterrupted green window: with actions enabled, at a crossing
\* whose target equals its Green index the engine shows Green[that index] at
\* every tick of the step, also when other crossings go through Red and
\* Yellow: its re-assertion comes before every tick and before every command
\* to another crossing's Red or Yellow, and it is sent nothing else.
C17_GreenWindow ==
    [][(IsStepCall /\ ~no_actions) =>
          \A c \in Crossings :
              targets'.data[c] = current_phases[c] =>
                  /\ \A i \in TickPlaces(log') :
                        ApplyCalls(eng_phase, SubSeq(log', 1, i))[c]
                            = PyIndex(Green(c), current_phases[c])
                  /\ raised' = "none" =>
                        /\ PosOfCommand(log', c, 1, 1) > 0
                        /\ \A i \in 1..(PosOfCommand(log', c, 1, 1) - 1) :
                              /\ ~IsTick(log'[i])
                              /\ log'[i].phase = PyIndex(Green(log'[i].cross),
                                                         current_phases[log'[i].cross])]_vars

\* a second step returned in which one crossing stayed at its Green index 1
\* through all the ticks while another went through Red, Yellow and Green
C17_Witness ==
    /\ call = "step" /\ raised = "none" /\ ~no_actions /\ nsteps = 2
    /\ red_duration > 0 /\ yellow_duration > 0 /\ green_duration > 0
    /\ TickCount(log) = StepTicks
    /\ \E c, d \in Crossings :
          /\ current_phases[c] = 1
          /\ targets.data[c] = 1
          /\ CommandsTo(log, c) = <<PyIndex(Green(c), 1)>>
          /\ eng_phase[c] = PyIndex(Green(c), 1)
          /\ Len(CommandsTo(log, d)) = 3

\* C18 -- Implicit invariant: with actions enabled, when reset or a step
\* given an action of the action space returns, the phase last sent to the
\* engine at every crossing is Green[current index]: no crossing is left in
\* a Red or a Yellow phase, whatever the durations, a green duration of 0
\* included.
C18_GreenAtBoundary ==
    (~no_actions /\ call \in {"reset", "step"} /\ raised = "none") =>
        \A c \in Crossings :
            /\ eng_phase[c] = PyIndex(Green(c), current_phases[c])
            /\ ~InList(Red(c), eng_phase[c])
            /\ ~InList(Yellow(c), eng_phase[c])

\* a step with a green duration of 0 took a crossing through Red and Yellow
\* and returned with its new Green phase as the last one sent
C18_Witness ==
    /\ call = "step" /\ raised = "none" /\ ~no_actions
    /\ green_duration = 0 /\ red_duration > 0 /\ yellow_duration > 0
    /\ \E c \in Crossings :
          /\ Len(CommandsTo(log, c)) = 3
          /\ current_phases[c] = 1
          /\ eng_phase[c] = PyIndex(Green(c), 1)
          /\ log[Len(log)] = SetPhaseCall(c, PyIndex(Green(c), 1))

\* C19 -- Implicit invariant: after reset and any steps given actions of the
\* action space, the Green index of every crossing is at least 0 and below
\* the number of its Green phases, and the crossings the controller tracks
\* are exactly the non-virtual crossings of the network.
C19_PhaseIndexRange ==
    call # "init" =>
        /\ DOMAIN current_phases = Crossings
        /\ \A c \in Crossings :
              0 <= current_phases[c] /\ current_phases[c] < NumGreen(c)

\* with three Green phases at a crossing, a second step left it at the last
\* of them
C19_Witness ==
    /\ call = "step" /\ raised = "none" /\ nsteps = 2
    /\ \E c \in Crossings :
          /\ NumGreen(c) > 2
          /\ current_phases[c] = NumGreen(c) - 1
          /\ Len(CommandsTo(log, c)) > 1

====
